---- MODULE Spec2Model ----
(***************************************************************************)
(* ci_scripts/ci_constants.py of dante-signal31/steganer: a module whose   *)
(* body binds twelve names, eleven to string literals and GITHUB_TOKEN to  *)
(* the result of os.getenv("GITHUB_TOKEN").  The model executes the body   *)
(* one source line per step inside a process whose environment other code  *)
(* may change at any time, and lets callers read the bound names and fill  *)
(* the descriptor name format.                                             *)
(***************************************************************************)
EXTENDS Integers, Sequences, FiniteSets, TLC

VARIABLES
    environ,        \* os.environ, restricted to the variables of interest
    status,         \* "unloaded" | "loading" | "loaded" | "failed"
    pc,             \* source line the load executes next
    globals,        \* the module namespace: name -> Python value
    loads,          \* number of loads started in this process
    envlog,         \* accesses the current load made to os.environ
    envAtRead,      \* os.environ as it was when line 7 last executed
    writes,         \* name -> number of assignments over the process lifetime
    loadedGlobals,  \* namespace as the latest finished load left it
    prevGlobals,    \* namespace as the load before that left it
    dirty,          \* GITHUB_TOKEN changed by other code since line 7 last ran
    changedBetween, \* dirty, as sampled when line 7 last ran
    observed,       \* reader -> last (name, value) it read from the module
    formatted       \* last (tag, outcome) of a descriptor name substitution

vars == <<environ, status, pc, globals, loads, envlog, envAtRead, writes,
          loadedGlobals, prevGlobals, dirty, changedBetween, observed, formatted>>

----------------------------------------------------------------------------
(* Bounds of the model *)

MaxLoads == 2
NumReaders == 2

Readers == 1..NumReaders

\* Values other code may give GITHUB_TOKEN in the environment
TokenValues == {"abc123", "", "{tag}"}

\* Tags a caller substitutes into the descriptor name format
Tags == {"v1.2.3", "1.0.0", "", "{tag}"}

----------------------------------------------------------------------------
(* Python values *)

Str(s) == [type |-> "str", value |-> s]
None == [type |-> "NoneType"]
OsModule == [type |-> "module", value |-> "os"]
AttributeError == [type |-> "AttributeError"]

----------------------------------------------------------------------------
(* The literals of lines 3-14 *)

BRANCH_TO_MERGE_INTO == "master"
BRANCH_TO_MERGE == "staging"
GITHUB_URL == "https://github.com/"
GITHUB_REPO_no_suffix == "dante-signal31/steganer"
GITHUB_REPO == "dante-signal31/steganer.git"
GIT_USERNAME == "dante-signal31"
GIT_EMAIL == "dante.signal31@gmail.com"
STEGANER_CONFIGURATION == "Cargo.toml"
VERSION_PREFIX == ""
BINTRAY_TEMPLATES_PATH == "packaging/bintray_descriptor_templates"
BINTRAY_DESCRIPTORS_PATH_tagged == "packaging/{tag}/"
BINTRAY_DESCRIPTORS_PATH == "packaging/"
BINTRAY_DESCRIPTOR_NAME_FORMAT_dash == "steganer-{tag}_bintray_descriptor.json"
BINTRAY_DESCRIPTOR_NAME_FORMAT == "steganer_{tag}_bintray_descriptor.json"

----------------------------------------------------------------------------
(* os.environ and the expression of line 7 *)

\* One access to os.environ: what it returns, what it leaves in the
\* environment, what it touched, and whether it raised.
Access(value, env, log, raised) ==
    [value |-> value, environ |-> env, log |-> log, raised |-> raised]

Get(key) == [op |-> "get", key |-> key]
Set(key) == [op |-> "set", key |-> key]
Del(key) == [op |-> "del", key |-> key]

\* os.getenv(key): the value as a str, or None when the variable is unset
getenv(env, key) ==
    Access(IF key \in DOMAIN env THEN Str(env[key]) ELSE None,
           env, <<Get(key)>>, FALSE)

\* os.getenv("GITHUB_TOKEN") or None
GITHUB_TOKEN_or_none(env) ==
    LET r == getenv(env, "GITHUB_TOKEN")
    IN  IF r.value = Str("") THEN [r EXCEPT !.value = None] ELSE r

\* os.environ["GITHUB_TOKEN"]
GITHUB_TOKEN_subscript(env) ==
    IF "GITHUB_TOKEN" \in DOMAIN env
    THEN Access(Str(env["GITHUB_TOKEN"]), env, <<Get("GITHUB_TOKEN")>>, FALSE)
    ELSE Access(None, env, <<Get("GITHUB_TOKEN")>>, TRUE)

\* os.environ.pop("GITHUB_TOKEN", None)
GITHUB_TOKEN_pop(env) ==
    IF "GITHUB_TOKEN" \in DOMAIN env
    THEN Access(Str(env["GITHUB_TOKEN"]),
                [k \in DOMAIN env \ {"GITHUB_TOKEN"} |-> env[k]],
                <<Get("GITHUB_TOKEN"), Del("GITHUB_TOKEN")>>, FALSE)
    ELSE Access(None, env, <<Get("GITHUB_TOKEN")>>, FALSE)

\* os.environ.setdefault("GITHUB_TOKEN", "")
GITHUB_TOKEN_setdefault(env) ==
    IF "GITHUB_TOKEN" \in DOMAIN env
    THEN Access(Str(env["GITHUB_TOKEN"]), env, <<Get("GITHUB_TOKEN")>>, FALSE)
    ELSE Access(Str(""),
                [k \in DOMAIN env \cup {"GITHUB_TOKEN"} |->
                    IF k = "GITHUB_TOKEN" THEN "" ELSE env[k]],
                <<Get("GITHUB_TOKEN"), Set("GITHUB_TOKEN")>>, FALSE)

\* Line 7: GITHUB_TOKEN = os.getenv("GITHUB_TOKEN")
GITHUB_TOKEN(env) == getenv(env, "GITHUB_TOKEN")

\* A string literal touches nothing
Literal(s, env) == Access(Str(s), env, <<>>, FALSE)

----------------------------------------------------------------------------
(* The module body, line by line *)

FirstLine == 1
TokenLine == 7
LastLine == 14

\* Lines 2 (blank) and 15 (a comment) are no statements
NextLine(line) == IF line = 1 THEN 3 ELSE line + 1

Names == {"BRANCH_TO_MERGE_INTO", "BRANCH_TO_MERGE", "GITHUB_URL", "GITHUB_REPO",
          "GITHUB_TOKEN", "GIT_USERNAME", "GIT_EMAIL", "STEGANER_CONFIGURATION",
          "VERSION_PREFIX", "BINTRAY_TEMPLATES_PATH", "BINTRAY_DESCRIPTORS_PATH",
          "BINTRAY_DESCRIPTOR_NAME_FORMAT"}

\* Line 13 written as a second assignment to the name of line 12
Target_duplicate(line) ==
    CASE line = 3 -> "BRANCH_TO_MERGE_INTO"
      [] line = 4 -> "BRANCH_TO_MERGE"
      [] line = 5 -> "GITHUB_URL"
      [] line = 6 -> "GITHUB_REPO"
      [] line = 7 -> "GITHUB_TOKEN"
      [] line = 8 -> "GIT_USERNAME"
      [] line = 9 -> "GIT_EMAIL"
      [] line = 10 -> "STEGANER_CONFIGURATION"
      [] line = 11 -> "VERSION_PREFIX"
      [] line = 12 -> "BINTRAY_TEMPLATES_PATH"
      [] line = 13 -> "BINTRAY_TEMPLATES_PATH"
      [] line = 14 -> "BINTRAY_DESCRIPTOR_NAME_FORMAT"
      [] OTHER -> "os"

\* The name a line binds; line 1 (import os) binds os
Target(line) ==
    CASE line = 3 -> "BRANCH_TO_MERGE_INTO"
      [] line = 4 -> "BRANCH_TO_MERGE"
      [] line = 5 -> "GITHUB_URL"
      [] line = 6 -> "GITHUB_REPO"
      [] line = 7 -> "GITHUB_TOKEN"
      [] line = 8 -> "GIT_USERNAME"
      [] line = 9 -> "GIT_EMAIL"
      [] line = 10 -> "STEGANER_CONFIGURATION"
      [] line = 11 -> "VERSION_PREFIX"
      [] line = 12 -> "BINTRAY_TEMPLATES_PATH"
      [] line = 13 -> "BINTRAY_DESCRIPTORS_PATH"
      [] line = 14 -> "BINTRAY_DESCRIPTOR_NAME_FORMAT"
      [] OTHER -> "os"

\* The right-hand side of a line, evaluated in the environment env
Rhs(line, env) ==
    CASE line = 3 -> Literal(BRANCH_TO_MERGE_INTO, env)
      [] line = 4 -> Literal(BRANCH_TO_MERGE, env)
      [] line = 5 -> Literal(GITHUB_URL, env)
      [] line = 6 -> Literal(GITHUB_REPO, env)
      [] line = 7 -> GITHUB_TOKEN(env)
      [] line = 8 -> Literal(GIT_USERNAME, env)
      [] line = 9 -> Literal(GIT_EMAIL, env)
      [] line = 10 -> Literal(STEGANER_CONFIGURATION, env)
      [] line = 11 -> Literal(VERSION_PREFIX, env)
      [] line = 12 -> Literal(BINTRAY_TEMPLATES_PATH, env)
      [] line = 13 -> Literal(BINTRAY_DESCRIPTORS_PATH, env)
      [] line = 14 -> Literal(BINTRAY_DESCRIPTOR_NAME_FORMAT, env)
      [] OTHER -> Access(OsModule, env, <<>>, FALSE)

\* d[name] = value on a dict (a namespace, os.environ)
Bind(d, name, value) ==
    [n \in DOMAIN d \cup {name} |-> IF n = name THEN value ELSE d[n]]

\* del d[name]
Unbind(d, name) == [n \in DOMAIN d \ {name} |-> d[n]]

\* module.name as a caller reads it: the module defines no __getattr__ and
\* no property, so a read returns what the load bound
ModuleAttr_lazy(g, env, name) ==
    IF name = "GITHUB_TOKEN" THEN getenv(env, name).value
    ELSE IF name \in DOMAIN g THEN g[name] ELSE AttributeError

ModuleAttr(g, env, name) ==
    IF name \in DOMAIN g THEN g[name] ELSE AttributeError

----------------------------------------------------------------------------
(* str.format as a caller applies it to a constant: "{{" and "}}" are     *)
(* literal braces, "{name}" is a replacement field, a lone brace raises    *)
(* ValueError.  Fields carrying a !conversion or a :specification occur in *)
(* none of the strings parsed here and are reported as raising.            *)

Char(s, i) == SubSeq(s, i, i)

\* Index of the first "}" of s at or after i, 0 when there is none
RECURSIVE Closing(_, _)
Closing(s, i) ==
    IF i > Len(s) THEN 0
    ELSE IF Char(s, i) = "}" THEN i
    ELSE Closing(s, i + 1)

Text(c) == [kind |-> "text", text |-> c]
Field(name) == [kind |-> "field", text |-> name]

\* The literal characters and replacement fields of s from index i on
RECURSIVE ParseFrom(_, _, _)
ParseFrom(s, i, items) ==
    IF i > Len(s) THEN [raised |-> FALSE, items |-> items]
    ELSE IF Char(s, i) = "{"
    THEN IF i < Len(s) /\ Char(s, i + 1) = "{"
         THEN ParseFrom(s, i + 2, Append(items, Text("{")))
         ELSE LET j == Closing(s, i + 1)
              IN  IF j = 0 THEN [raised |-> TRUE, items |-> items]
                  ELSE ParseFrom(s, j + 1,
                                 Append(items, Field(SubSeq(s, i + 1, j - 1))))
    ELSE IF Char(s, i) = "}"
    THEN IF i < Len(s) /\ Char(s, i + 1) = "}"
         THEN ParseFrom(s, i + 2, Append(items, Text("}")))
         ELSE [raised |-> TRUE, items |-> items]
    ELSE ParseFrom(s, i + 1, Append(items, Text(Char(s, i))))

Parse(s) == ParseFrom(s, 1, <<>>)

\* The names of the replacement fields of s, in order
FieldNames(s) ==
    LET p == Parse(s)
        IsField(item) == item.kind = "field"
        names == SelectSeq(p.items, IsField)
    IN  [raised |-> p.raised,
         names |-> [k \in 1..Len(names) |-> names[k].text]]

\* Joins the parsed items, a field named tag replaced by the tag as it is
\* (the substituted text is not parsed again)
RECURSIVE Join(_, _, _, _)
Join(items, k, tag, acc) ==
    IF k > Len(items) THEN [raised |-> FALSE, value |-> acc]
    ELSE IF items[k].kind = "text" THEN Join(items, k + 1, tag, acc \o items[k].text)
    ELSE IF items[k].text = "tag" THEN Join(items, k + 1, tag, acc \o tag)
    ELSE [raised |-> TRUE, value |-> acc]

\* s.format(tag=tag)
Format(s, tag) ==
    LET p == Parse(s)
    IN  IF p.raised THEN [raised |-> TRUE, value |-> ""]
        ELSE Join(p.items, 1, tag, "")

----------------------------------------------------------------------------
(* The process *)

NoEnv == <<>>
BaseEnv == [k \in {"PATH"} |-> "/usr/bin"]
NoObservation == [read |-> FALSE]
NoFormat == [done |-> FALSE]
Bound == Names \cup {"os"}

Init ==
    /\ environ \in {BaseEnv} \cup {Bind(BaseEnv, "GITHUB_TOKEN", v) : v \in TokenValues}
    /\ status = "unloaded"
    /\ pc = FirstLine
    /\ globals = <<>>
    /\ loads = 0
    /\ envlog = <<>>
    /\ envAtRead = NoEnv
    /\ writes = [n \in Bound |-> 0]
    /\ loadedGlobals = <<>>
    /\ prevGlobals = <<>>
    /\ dirty = FALSE
    /\ changedBetween = FALSE
    /\ observed = [r \in Readers |-> NoObservation]
    /\ formatted = NoFormat

\* import ci_scripts.ci_constants, the module not yet in sys.modules
Import ==
    /\ status = "unloaded"
    /\ status' = "loading"
    /\ pc' = FirstLine
    /\ loads' = loads + 1
    /\ envlog' = <<>>
    /\ UNCHANGED <<environ, globals, envAtRead, writes, loadedGlobals,
                   prevGlobals, dirty, changedBetween, observed, formatted>>

\* importlib.reload(ci_constants): the body runs again in the same namespace
Reload ==
    /\ status = "loaded"
    /\ loads < MaxLoads
    /\ status' = "loading"
    /\ pc' = FirstLine
    /\ loads' = loads + 1
    /\ envlog' = <<>>
    /\ UNCHANGED <<environ, globals, envAtRead, writes, loadedGlobals,
                   prevGlobals, dirty, changedBetween, observed, formatted>>

\* The load executes the statement at line pc
Step ==
    /\ status = "loading"
    /\ LET r == Rhs(pc, environ)
           t == Target(pc)
       IN  /\ environ' = r.environ
           /\ envlog' = envlog \o r.log
           /\ IF pc = TokenLine
              THEN /\ envAtRead' = environ
                   /\ changedBetween' = dirty
                   /\ dirty' = FALSE
              ELSE UNCHANGED <<envAtRead, changedBetween, dirty>>
           /\ IF r.raised
              THEN /\ status' = "failed"
                   /\ UNCHANGED <<pc, globals, writes, loadedGlobals, prevGlobals>>
              ELSE /\ globals' = Bind(globals, t, r.value)
                   /\ writes' = [writes EXCEPT ![t] = @ + 1]
                   /\ IF pc = LastLine
                      THEN /\ status' = "loaded"
                           /\ pc' = pc
                           /\ loadedGlobals' = globals'
                           /\ prevGlobals' = loadedGlobals
                      ELSE /\ status' = status
                           /\ pc' = NextLine(pc)
                           /\ UNCHANGED <<loadedGlobals, prevGlobals>>
    /\ UNCHANGED <<loads, observed, formatted>>

\* Other code of the process: os.environ["GITHUB_TOKEN"] = v
SetEnv(v) ==
    /\ environ # Bind(environ, "GITHUB_TOKEN", v)
    /\ environ' = Bind(environ, "GITHUB_TOKEN", v)
    /\ dirty' = TRUE
    /\ UNCHANGED <<status, pc, globals, loads, envlog, envAtRead, writes,
                   loadedGlobals, prevGlobals, changedBetween, observed, formatted>>

\* Other code of the process: del os.environ["GITHUB_TOKEN"]
UnsetEnv ==
    /\ "GITHUB_TOKEN" \in DOMAIN environ
    /\ environ' = Unbind(environ, "GITHUB_TOKEN")
    /\ dirty' = TRUE
    /\ UNCHANGED <<status, pc, globals, loads, envlog, envAtRead, writes,
                   loadedGlobals, prevGlobals, changedBetween, observed, formatted>>

\* A thread that imported the module reads ci_constants.name; it takes no lock
Read(r, name) ==
    /\ status = "loaded"
    /\ observed' = [observed EXCEPT ![r] =
                       [read |-> TRUE, name |-> name,
                        value |-> ModuleAttr(globals, environ, name)]]
    /\ observed' # observed
    /\ UNCHANGED <<environ, status, pc, globals, loads, envlog, envAtRead, writes,
                   loadedGlobals, prevGlobals, dirty, changedBetween, formatted>>

\* A caller runs BINTRAY_DESCRIPTOR_NAME_FORMAT.format(tag=tag)
FormatName(tag) ==
    /\ status = "loaded"
    /\ LET f == ModuleAttr(globals, environ, "BINTRAY_DESCRIPTOR_NAME_FORMAT")
       IN  formatted' = [done |-> TRUE, tag |-> tag,
                         outcome |-> IF f.type = "str" THEN Format(f.value, tag)
                                     ELSE [raised |-> TRUE, value |-> ""]]
    /\ formatted' # formatted
    /\ UNCHANGED <<environ, status, pc, globals, loads, envlog, envAtRead, writes,
                   loadedGlobals, prevGlobals, dirty, changedBetween, observed>>

EnvChange == (\E v \in TokenValues : SetEnv(v)) \/ UnsetEnv

\* A process that loads the module and may reload it
Next == Import \/ Step \/ Reload \/ EnvChange

Spec == Init /\ [][Next]_vars

\* A process that loads the module once and whose threads read it
NextReaders == Import \/ Step \/ EnvChange \/ (\E r \in Readers, n \in Names : Read(r, n))

SpecReaders == Init /\ [][NextReaders]_vars

\* A process that loads the module once and names descriptor files
NextFormat == Import \/ Step \/ EnvChange \/ (\E t \in Tags : FormatName(t))

SpecFormat == Init /\ [][NextFormat]_vars

----------------------------------------------------------------------------
(* Properties *)

\* The literal each claim declares for a name
Declared ==
    [BRANCH_TO_MERGE_INTO |-> "master",
     BRANCH_TO_MERGE |-> "staging",
     GITHUB_URL |-> "https://github.com/",
     GITHUB_REPO |-> "dante-signal31/steganer.git",
     GIT_USERNAME |-> "dante-signal31",
     GIT_EMAIL |-> "dante.signal31@gmail.com",
     STEGANER_CONFIGURATION |-> "Cargo.toml",
     VERSION_PREFIX |-> "",
     BINTRAY_TEMPLATES_PATH |-> "packaging/bintray_descriptor_templates",
     BINTRAY_DESCRIPTORS_PATH |-> "packaging/",
     BINTRAY_DESCRIPTOR_NAME_FORMAT |-> "steganer_{tag}_bintray_descriptor.json"]

LiteralNames == Names \ {"GITHUB_TOKEN"}

\* What os.environ held for GITHUB_TOKEN when line 7 last executed
TokenAtLoad ==
    IF "GITHUB_TOKEN" \in DOMAIN envAtRead THEN Str(envAtRead["GITHUB_TOKEN"]) ELSE None

UnsetAtLoad == envAtRead # NoEnv /\ "GITHUB_TOKEN" \notin DOMAIN envAtRead

\* C1: in every load and every environment, each name other than GITHUB_TOKEN
\* is bound to its declared literal: never to anything else once its line has
\* run, and all eleven are bound when the load has finished.
C1_LiteralsAsDeclared ==
    \A n \in LiteralNames :
        /\ n \in DOMAIN globals => globals[n] = Str(Declared[n])
        /\ status = "loaded" => n \in DOMAIN globals

\* The second load has finished in an environment that sets GITHUB_TOKEN
C1_Witness ==
    /\ status = "loaded"
    /\ loads = 2
    /\ "GITHUB_TOKEN" \in DOMAIN environ
    /\ environ["GITHUB_TOKEN"] = "abc123"

\* C2: when GITHUB_TOKEN was set to v as line 7 ran, the constant is the str
\* v itself, the empty string included: no default, no transformation.
C2_TokenIsEnvValue ==
    ("GITHUB_TOKEN" \in DOMAIN globals /\ "GITHUB_TOKEN" \in DOMAIN envAtRead)
        => globals["GITHUB_TOKEN"] = Str(envAtRead["GITHUB_TOKEN"])

\* A load has finished that read GITHUB_TOKEN set to the empty string
C2_Witness ==
    /\ status = "loaded"
    /\ "GITHUB_TOKEN" \in DOMAIN envAtRead
    /\ envAtRead["GITHUB_TOKEN"] = ""

\* C3: when GITHUB_TOKEN was unset as line 7 ran, the load does not fail, it
\* can always take its next step, and once finished GITHUB_TOKEN is None and
\* every other name is bound to its literal.
C3_UnsetTokenLoads ==
    UnsetAtLoad =>
        /\ status # "failed"
        /\ status = "loading" => ENABLED Step
        /\ status = "loaded" =>
              /\ "GITHUB_TOKEN" \in DOMAIN globals
              /\ globals["GITHUB_TOKEN"] = None
              /\ \A n \in LiteralNames :
                    n \in DOMAIN globals /\ globals[n] = Str(Declared[n])

\* A load has finished that found GITHUB_TOKEN unset
C3_Witness == status = "loaded" /\ UnsetAtLoad

\* C4: a load that follows another, GITHUB_TOKEN not changed by other code
\* between the two reads of it, leaves every name with the value the earlier
\* load gave it.
C4_ReloadIdempotent ==
    (status = "loaded" /\ loads >= 2 /\ ~changedBetween) => globals = prevGlobals

\* A second load has finished, the token set and untouched between the loads
C4_Witness ==
    /\ status = "loaded"
    /\ loads >= 2
    /\ ~changedBetween
    /\ "GITHUB_TOKEN" \in DOMAIN envAtRead

\* C5: substituting a tag t in BINTRAY_DESCRIPTOR_NAME_FORMAT raises nothing
\* and yields "steganer_" + t + "_bintray_descriptor.json"; the tag "v1.2.3"
\* yields "steganer_v1.2.3_bintray_descriptor.json".
C5_DescriptorName ==
    formatted.done =>
        /\ formatted.outcome =
              [raised |-> FALSE,
               value |-> "steganer_" \o formatted.tag \o "_bintray_descriptor.json"]
        /\ formatted.tag = "v1.2.3" =>
              formatted.outcome.value = "steganer_v1.2.3_bintray_descriptor.json"

\* A caller has substituted the tag v1.2.3
C5_Witness == formatted.done /\ formatted.tag = "v1.2.3"

C7_OneEnvRead ==
    /\ [](status = "loaded" => envlog = <<Get("GITHUB_TOKEN")>>)
    /\ [][(pc' # pc \/ status' # status) => environ' = environ]_vars

\* A load has finished in an environment no other code touched meanwhile
C7_Witness ==
    /\ status = "loaded"
    /\ ~dirty
    /\ environ = envAtRead

\* C8: once the module is loaded, whatever other code does to GITHUB_TOKEN
\* in the environment, reading the constant gives the value the variable had
\* when line 7 ran.
C8_TokenSnapshot ==
    status = "loaded" =>
        /\ ModuleAttr(globals, environ, "GITHUB_TOKEN") = TokenAtLoad
        /\ \A r \in Readers :
              (observed[r].read /\ observed[r].name = "GITHUB_TOKEN")
                  => observed[r].value = TokenAtLoad

\* The variable was unset after a load that read "abc123", and a reader has
\* read the constant
C8_Witness ==
    /\ status = "loaded"
    /\ TokenAtLoad = Str("abc123")
    /\ "GITHUB_TOKEN" \notin DOMAIN environ
    /\ \E r \in Readers : observed[r].read /\ observed[r].name = "GITHUB_TOKEN"

\* C9: readers of the loaded module, in any interleaving and with no lock,
\* see for each name the value the load left: two readers of one name agree,
\* and nobody sees an unbound name.
C9_ReadersAgree ==
    /\ \A r \in Readers :
          observed[r].read =>
              /\ observed[r].value # AttributeError
              /\ observed[r].name \in DOMAIN loadedGlobals
              /\ observed[r].value = loadedGlobals[observed[r].name]
    /\ \A r1, r2 \in Readers :
          (observed[r1].read /\ observed[r2].read
              /\ observed[r1].name = observed[r2].name)
                  => observed[r1].value = observed[r2].value

\* Two readers have read GITHUB_TOKEN and the environment no longer is what
\* the load read
C9_Witness ==
    /\ \E r1, r2 \in Readers :
          /\ r1 # r2
          /\ observed[r1].read /\ observed[r1].name = "GITHUB_TOKEN"
          /\ observed[r2].read /\ observed[r2].name = "GITHUB_TOKEN"
    /\ dirty
    /\ environ # envAtRead

\* s holds no replacement field, and substituting any tag gives s back
NoPlaceholder(s) ==
    /\ FieldNames(s) = [raised |-> FALSE, names |-> <<>>]
    /\ \A t \in Tags : Format(s, t) = [raised |-> FALSE, value |-> s]

OnePlaceholder(s) == FieldNames(s) = [raised |-> FALSE, names |-> <<"tag">>]

\* C10 as stated: of all the string constants of the loaded module,
\* BINTRAY_DESCRIPTOR_NAME_FORMAT alone holds a placeholder, {tag}, once.
C10_OnlyPlaceholderAmongAll ==
    status = "loaded" =>
        \A n \in Names :
            (n \in DOMAIN globals /\ globals[n].type = "str") =>
                IF n = "BINTRAY_DESCRIPTOR_NAME_FORMAT"
                THEN OnePlaceholder(globals[n].value)
                ELSE NoPlaceholder(globals[n].value)

\* C10, amended: BINTRAY_DESCRIPTOR_NAME_FORMAT holds the placeholder {tag}
\* once, and none of the ten other constants bound to a literal holds one;
\* GITHUB_TOKEN is whatever the environment held.
C10_OnlyPlaceholderAmongLiterals ==
    status = "loaded" =>
        \A n \in LiteralNames :
            /\ n \in DOMAIN globals
            /\ globals[n].type = "str"
            /\ IF n = "BINTRAY_DESCRIPTOR_NAME_FORMAT"
               THEN OnePlaceholder(globals[n].value)
               ELSE NoPlaceholder(globals[n].value)

\* A load has finished that read the token "{tag}" from the environment
C10_Witness == status = "loaded" /\ TokenAtLoad = Str("{tag}")

====
